---- MODULE Spec2Model ----
(***************************************************************************)
(* Model of src/src/App.tsx: the recipe finder's search handler onSearch,  *)
(* the two API calls it awaits, and the pure filter functions it applies   *)
(* (getIngredients, estimateMinutes, matchesDiet, matchesMood,             *)
(* matchesTime, excludeIngredients).                                       *)
(*                                                                         *)
(* JavaScript strings are sequences of one-character strings, so that      *)
(* trim, toLowerCase, split and includes are computed and not assumed.     *)
(* A null string is the one-element sequence Null.  A nullable record      *)
(* (MealDetails | null) is a sequence of length 0 (null) or 1.             *)
(* The `expanded` map and the measures of the ingredient lines are         *)
(* presentation state that no filter reads; they are not modelled.         *)
(***************************************************************************)
EXTENDS Integers, Sequences, FiniteSets, TLC

(***************************************************************************)
(* Bounds of the model                                                     *)
(***************************************************************************)
\* meal ids known to the remote API: 1..NumMeals (more than the cap of 24)
NumMeals == 26
\* form edits (onChange events) in one behaviour
MaxEdits == 2
\* words the estimator's instruction text grows to
MaxWords == 570

(***************************************************************************)
(* JavaScript string primitives                                            *)
(***************************************************************************)
Null == <<"NULL">>

\* x ?? d
Coalesce(x, d) == IF x = Null THEN d ELSE x

UpperChars == <<"A","B","C","D","E","F","G","H","I","J","K","L","M",
                "N","O","P","Q","R","S","T","U","V","W","X","Y","Z">>
LowerChars == <<"a","b","c","d","e","f","g","h","i","j","k","l","m",
                "n","o","p","q","r","s","t","u","v","w","x","y","z">>

ToLowerChar(c) ==
    IF \E i \in 1..26 : UpperChars[i] = c
    THEN LowerChars[CHOOSE i \in 1..26 : UpperChars[i] = c]
    ELSE c

\* String.prototype.toLowerCase
ToLowerCase(s) == [i \in 1..Len(s) |-> ToLowerChar(s[i])]

\* the characters /\s/ matches
IsSpace(c) == c \in {" ", "\n", "\t"}

\* String.prototype.trim: from the first to the last non-space character
Trim(s) ==
    IF \A i \in 1..Len(s) : IsSpace(s[i]) THEN <<>>
    ELSE LET from == CHOOSE i \in 1..Len(s) :
                         ~IsSpace(s[i]) /\ \A j \in 1..(i - 1) : IsSpace(s[j])
             to == CHOOSE i \in 1..Len(s) :
                       ~IsSpace(s[i]) /\ \A j \in (i + 1)..Len(s) : IsSpace(s[j])
         IN  SubSeq(s, from, to)

\* String.prototype.split(sep) for a one-character separator:
\* one piece more than there are separators, empty pieces kept
Split(s, sep) ==
    LET P == {i \in 1..Len(s) : s[i] = sep}
        n == Cardinality(P)
        pos(k) == CHOOSE i \in P : Cardinality({j \in P : j < i}) = k - 1
        first(k) == IF k = 1 THEN 1 ELSE pos(k - 1) + 1
        last(k) == IF k = n + 1 THEN Len(s) ELSE pos(k) - 1
    IN  [k \in 1..(n + 1) |-> SubSeq(s, first(k), last(k))]

\* String.prototype.includes
Includes(s, t) ==
    \E i \in 0..(Len(s) - Len(t)) : SubSeq(s, i + 1, i + Len(t)) = t

\* the indexes 1..n in order: what a for loop or Array.filter walks
Indexes(n) == [i \in 1..n |-> i]

\* Array.prototype.includes / some, on a sequence
InSeq(x, seq) == \E i \in 1..Len(seq) : seq[i] = x

\* s.split(/\s+/).filter(Boolean).length: the maximal runs of non-space
WordCount(s) ==
    Cardinality({i \in 1..Len(s) :
                    ~IsSpace(s[i]) /\ (i = 1 \/ IsSpace(s[i - 1]))})

\* a parse that forgets .filter(Boolean)
ParseListKeepEmpty(input) ==
    LET pieces == Split(input, ",")
    IN  [k \in 1..Len(pieces) |-> ToLowerCase(Trim(pieces[k]))]

\* input.split(',').map((s) => s.trim().toLowerCase()).filter(Boolean)
ParseList(input) ==
    LET pieces == Split(input, ",")
        mapped == [k \in 1..Len(pieces) |-> ToLowerCase(Trim(pieces[k]))]
    IN  SelectSeq(mapped, LAMBDA p : p # <<>>)

(***************************************************************************)
(* Pure functions over a MealDetails record                                *)
(*   [idMeal, strCategory, strTags, strInstructions, strIngredient]        *)
(* strIngredient is the 20 slots strIngredient1..20 (Null: absent).        *)
(***************************************************************************)
NumSlots == 20

getIngredients(m) ==
    LET idx == SelectSeq(Indexes(NumSlots),
                         LAMBDA i : m.strIngredient[i] # Null
                                    /\ Trim(m.strIngredient[i]) # <<>>)
    IN  [k \in 1..Len(idx) |->
            [ingredient |-> Trim(m.strIngredient[idx[k]])]]

\* Math.round of a multiple of 1/4, given as quarters: halves round up
RoundQuarters(q) == (q + 2) \div 4

Min2(a, b) == IF a <= b THEN a ELSE b
Max2(a, b) == IF a >= b THEN a ELSE b

LowClamp == 5
HighClamp == 180

\* an estimate that truncates instead of rounding
estimateMinutesFloor(m) ==
    LET instr == Trim(Coalesce(m.strInstructions, <<>>))
        words == WordCount(instr)
        ingredientsCount == Len(getIngredients(m))
        est == (words + 8 * ingredientsCount) \div 4
    IN  Max2(LowClamp, Min2(est, HighClamp))

estimateMinutes(m) ==
    LET instr == Trim(Coalesce(m.strInstructions, <<>>))
        words == WordCount(instr)
        ingredientsCount == Len(getIngredients(m))
        \* words * 0.25 + ingredientsCount * 2, in quarters
        est == RoundQuarters(words + 8 * ingredientsCount)
    IN  Max2(LowClamp, Min2(est, HighClamp))

Gluteny == << <<"f","l","o","u","r">>, <<"b","r","e","a","d">>,
              <<"p","a","s","t","a">>, <<"n","o","o","d","l","e","s">>,
              <<"w","h","e","a","t">>, <<"b","a","r","l","e","y">>,
              <<"b","u","l","g","u","r">>,
              <<"s","e","m","o","l","i","n","a">> >>

Vegetarian == <<"v","e","g","e","t","a","r","i","a","n">>
Vegan == <<"v","e","g","a","n">>

matchesDiet(m, diet) ==
    LET tags == ToLowerCase(Coalesce(m.strTags, <<>>))
        category == ToLowerCase(Coalesce(m.strCategory, <<>>))
        got == getIngredients(m)
        ings == [k \in 1..Len(got) |-> ToLowerCase(got[k].ingredient)]
    IN  CASE diet = "None" -> TRUE
          [] diet = "Vegetarian" ->
                Includes(tags, Vegetarian) \/ category = Vegetarian
          [] diet = "Vegan" -> Includes(tags, Vegan) \/ category = Vegan
          [] diet = "Gluten-Free" ->
                ~ \E k \in 1..Len(ings) :
                      \E g \in 1..Len(Gluteny) : Includes(ings[k], Gluteny[g])
          [] OTHER -> TRUE

\* MOOD_MAP; NoList stands for a key the entry does not have (undefined)
NoList == << <<"UNDEFINED">> >>
MOOD_MAP ==
    [Comforting |->
        [categories |-> << <<"B","e","e","f">>, <<"P","a","s","t","a">>,
                           <<"P","o","r","k">>,
                           <<"C","h","i","c","k","e","n">> >>,
         tagsContains |-> NoList],
     Healthy |->
        [categories |-> << <<"V","e","g","e","t","a","r","i","a","n">>,
                           <<"V","e","g","a","n">>,
                           <<"S","a","l","a","d">> >>,
         tagsContains |-> << <<"L","o","w"," ","F","a","t">>,
                             <<"H","e","a","l","t","h","y">> >>],
     Adventurous |->
        [categories |-> << <<"S","e","a","f","o","o","d">>,
                           <<"L","a","m","b">>, <<"G","o","a","t">> >>,
         tagsContains |-> << <<"S","p","i","c","y">> >>],
     Quick |->
        [categories |-> NoList,
         tagsContains |-> << <<"Q","u","i","c","k">>,
                             <<"E","a","s","y">> >>]]

Moods == {"Any", "Comforting", "Healthy", "Adventurous", "Quick"}

matchesMood(m, mood) ==
    IF mood = "Any" THEN TRUE
    ELSE
    LET conf == MOOD_MAP[mood]
        category == Coalesce(m.strCategory, <<>>)
        pieces == Split(Coalesce(m.strTags, <<>>), ",")
        tags == [k \in 1..Len(pieces) |-> Trim(pieces[k])]
        catOk == conf.categories = NoList \/ InSeq(category, conf.categories)
        tagOk == conf.tagsContains = NoList
                 \/ \E t \in 1..Len(conf.tagsContains) :
                       \E j \in 1..Len(tags) :
                           Includes(tags[j], conf.tagsContains[t])
    IN  catOk \/ tagOk

TimeChoices == {"Any", "Under 15", "Under 30", "Under 45", "60+"}

matchesTime(m, time) ==
    IF time = "Any" THEN TRUE
    ELSE LET mins == estimateMinutes(m)
         IN  CASE time = "Under 15" -> mins <= 15
               [] time = "Under 30" -> mins <= 30
               [] time = "Under 45" -> mins <= 45
               [] OTHER -> mins >= 60

\* an exclusion that compares the names as written
excludeIngredientsCaseSensitive(m, excludes) ==
    LET got == getIngredients(m)
        ings == [k \in 1..Len(got) |-> got[k].ingredient]
    IN  IF Len(excludes) = 0 THEN TRUE
        ELSE ~ \E e \in 1..Len(excludes) :
                   \E k \in 1..Len(ings) : Includes(ings[k], excludes[e])

excludeIngredients(m, excludes) ==
    LET got == getIngredients(m)
        ings == [k \in 1..Len(got) |-> ToLowerCase(got[k].ingredient)]
    IN  IF Len(excludes) = 0 THEN TRUE
        ELSE ~ \E e \in 1..Len(excludes) :
                   \E k \in 1..Len(ings) : Includes(ings[k], excludes[e])


(***************************************************************************)
(* The remote API (themealdb.com), as the bounded environment              *)
(***************************************************************************)
\* The meal record the lookup endpoint holds for an id: the categories,
\* tags, instructions and ingredient slots vary with the id.
PadSlots(given, filler) ==
    [i \in 1..NumSlots |-> IF i <= Len(given) THEN given[i] ELSE filler]

Repeat(piece, n) ==
    [i \in 1..(n * Len(piece)) |-> piece[((i - 1) % Len(piece)) + 1]]

SlotsOf(id) ==
    CASE id % 5 = 0 -> PadSlots(<< <<"C","h","i","c","k","e","n">>,
                                  <<"P","e","a","n","u","t","s">> >>, Null)
      [] id % 5 = 1 -> PadSlots(<< <<"R","i","c","e">>, <<" ">>,
                                  <<"W","h","e","a","t"," ","F","l","o","u","r">> >>,
                                <<>>)
      [] id % 5 = 2 -> PadSlots(<< <<" ","A","l","m","o","n","d"," ">> >>, Null)
      [] id % 5 = 3 -> PadSlots(<< >>, <<"S","a","l","t">>)
      [] OTHER -> PadSlots(<< >>, Null)

CategoryOf(id) ==
    CASE id % 4 = 0 -> <<"S","e","a","f","o","o","d">>
      [] id % 4 = 1 -> Null
      [] id % 4 = 2 -> <<"D","e","s","s","e","r","t">>
      [] OTHER -> <<"V","e","g","e","t","a","r","i","a","n">>

TagsOf(id) ==
    CASE id % 3 = 0 -> Null
      [] id % 3 = 1 -> <<"S","o","u","p",","," ","S","p","i","c","y">>
      [] OTHER -> <<"L","o","w"," ","F","a","t",",","V","e","g","a","n">>

InstructionsOf(id) ==
    CASE id % 7 \in {0, 1} -> Null
      [] id % 7 \in {2, 3, 5} -> <<" ","M","i","x"," "," ","w","e","l","l","\n">>
      [] id % 7 = 4 -> Repeat(<<"a"," ">>, 80)
      [] OTHER -> <<>>

MealRecordOf(id) ==
    [idMeal |-> id,
     strCategory |-> CategoryOf(id),
     strTags |-> TagsOf(id),
     strInstructions |-> InstructionsOf(id),
     strIngredient |-> SlotsOf(id)]

MealIds == 1..NumMeals

\* the API's records, built once (0: a record no search returns)
MealDB == [id \in 0..NumMeals |-> MealRecordOf(id)]

MealRecord(id) == MealDB[id]

Summaries(ids) == [k \in 1..Len(ids) |-> [idMeal |-> ids[k]]]

\* bodies of filter.php: { meals: null } or { meals: [...] }
\* (a nullable value is a sequence of length 0 or 1)
FilterBodies ==
    { <<>>,
      << Summaries([k \in 1..NumMeals |-> k]) >>,
      << Summaries([k \in 1..(NumMeals - 1) |-> NumMeals + 1 - k]) >>,
      << Summaries(<<1, 1>>) >> }

\* what fetch() does for one request: it rejects (with an error message,
\* possibly empty), or resolves to a response with res.ok and a JSON body
Rejections ==
    { [rejected |-> TRUE, message |-> msg, ok |-> FALSE, meals |-> <<>>] :
          msg \in {"Failed to fetch", ""} }

FilterFetches ==
    Rejections
    \cup { [rejected |-> FALSE, message |-> "", ok |-> FALSE, meals |-> <<>>] }
    \cup { [rejected |-> FALSE, message |-> "", ok |-> TRUE, meals |-> b] :
              b \in FilterBodies }

\* ids whose lookup may go wrong; every other lookup finds its record
FlakyIds == {1, 2}

DetailKinds == {"found", "notOk", "noMeals", "reject"}

\* what fetch() does for lookup.php?i=<id>; a body without the meal is
\* { meals: null } or { meals: [] }
DetailFetch(id, kind) ==
    CASE kind = "reject" ->
            [rejected |-> TRUE, message |-> "Failed to fetch", ok |-> FALSE,
             meals |-> <<>>]
      [] kind = "notOk" ->
            [rejected |-> FALSE, message |-> "", ok |-> FALSE, meals |-> <<>>]
      [] kind = "noMeals" ->
            [rejected |-> FALSE, message |-> "", ok |-> TRUE,
             meals |-> IF id % 2 = 1 THEN <<>> ELSE << <<>> >>]
      [] OTHER ->
            [rejected |-> FALSE, message |-> "", ok |-> TRUE,
             meals |-> << <<MealRecord(id)>> >>]

(***************************************************************************)
(* API: the result of an async call is [thrown, message, value]            *)
(***************************************************************************)
NetworkErrorMessage == "Network error fetching meals"

Returned(v) == [thrown |-> FALSE, message |-> "", value |-> v]
Thrown(msg) == [thrown |-> TRUE, message |-> msg, value |-> <<>>]

\* a filter call that answers a failed response with no meals
filterByIngredientSoft(res) ==
    IF res.rejected THEN Thrown(res.message)
    ELSE Returned(IF ~res.ok \/ res.meals = <<>> THEN <<>> ELSE res.meals[1])

filterByIngredient(res) ==
    IF res.rejected THEN Thrown(res.message)
    ELSE IF ~res.ok THEN Thrown(NetworkErrorMessage)
    ELSE Returned(IF res.meals = <<>> THEN <<>> ELSE res.meals[1])

\* a lookup that throws on a failed response, as filterByIngredient does
detailsByIdThrowing(res) ==
    IF res.rejected THEN Thrown(res.message)
    ELSE IF ~res.ok THEN Thrown(NetworkErrorMessage)
    ELSE Returned(IF res.meals = <<>> \/ res.meals[1] = <<>>
                  THEN <<>> ELSE <<res.meals[1][1]>>)

\* MealDetails | null: a sequence of length 1 or 0
detailsById(res) ==
    IF res.rejected THEN Thrown(res.message)
    ELSE IF ~res.ok THEN Returned(<<>>)
    ELSE Returned(IF res.meals = <<>> \/ res.meals[1] = <<>>
                  THEN <<>> ELSE <<res.meals[1][1]>>)

(***************************************************************************)
(* State: the component's React state, and the one onSearch invocation     *)
(* that can be in flight (the submit button is disabled while loading)     *)
(***************************************************************************)
VARIABLES
    ingredientsInput, excludeInput, time, mood, diet,   \* the form
    loading, error, meals,                              \* what is rendered
    pc,          \* where onSearch is: "idle", "filter" or "details"
    search,      \* what the running onSearch closed over at submit
    lists,       \* its local `lists`
    selected,    \* its local `selected`
    fetches,     \* how the fetch of each filterByIngredient call of it ended
    lookups,     \* how the fetch of each detailsById call of it ended
    filterCalls, \* the filterByIngredient calls it issued, by argument
    detailCalls, \* the detailsById calls it issued, by argument
    shown,       \* in flight: were results on screen when it was submitted
    edits,       \* form edits so far
    estMeal, estWords, estCount, est,    \* the estimator on a growing meal
    moodMeal, moodChoice, moodResult     \* matchesMood on a drawn input

formVars == <<ingredientsInput, excludeInput, time, mood, diet, edits>>
viewVars == <<loading, error, meals>>
runVars == <<pc, search, lists, selected, fetches, lookups, filterCalls,
             detailCalls, shown>>
estVars == <<estMeal, estWords, estCount, est>>
moodVars == <<moodMeal, moodChoice, moodResult>>
vars == <<formVars, viewVars, runVars, estVars, moodVars>>

NoError == "null"
ValidationMessage == "Enter at least one ingredient."
FallbackMessage == "Something went wrong"

\* texts typed into the two inputs
IngredientTexts ==
    { <<>>,
      <<" ",","," ">>,
      <<"R","i","c","e">>,
      <<"c","h","i","c","k","e","n",","," ","C","h","i","c","k","e","n">> }

ExcludeTexts ==
    { <<>>,
      <<" ","P","e","a","n","u","t">>,
      <<"a","l","m","o","n","d",",">> }

DIETS == {"None", "Vegetarian", "Vegan", "Gluten-Free"}

parsedIngredients == ParseList(ingredientsInput)
parsedExcludes == ParseList(excludeInput)

\* before the first submit; `input` is the ingredients text as submitted
NoSearch ==
    [input |-> Null, ingredients |-> <<>>, excludes |-> <<>>, time |-> "Any",
     mood |-> "Any", diet |-> "None"]

EstIdle ==
    /\ estMeal = MealRecord(0)
    /\ estWords = 0
    /\ estCount = 0
    /\ est = 0

MoodIdle ==
    /\ moodMeal = MealRecord(0)
    /\ moodChoice = "Any"
    /\ moodResult = "none"

AppInit ==
    /\ ingredientsInput = <<>>
    /\ excludeInput = <<>>
    /\ time = "Any"
    /\ mood = "Any"
    /\ diet = "None"
    /\ loading = FALSE
    /\ error = NoError
    /\ meals = <<>>
    /\ pc = "idle"
    /\ search = NoSearch
    /\ lists = <<>>
    /\ selected = <<>>
    /\ fetches = <<>>
    /\ lookups = <<>>
    /\ filterCalls = <<>>
    /\ detailCalls = <<>>
    /\ shown = FALSE
    /\ edits = 0

Init == AppInit /\ EstIdle /\ MoodIdle

(***************************************************************************)
(* The form's onChange handlers                                            *)
(***************************************************************************)
CanEdit == edits < MaxEdits

setIngredientsInput ==
    /\ CanEdit
    /\ \E v \in IngredientTexts \ {ingredientsInput} : ingredientsInput' = v
    /\ edits' = edits + 1
    /\ UNCHANGED <<excludeInput, time, mood, diet, viewVars, runVars,
                   estVars, moodVars>>

setExcludeInput ==
    /\ CanEdit
    /\ \E v \in ExcludeTexts \ {excludeInput} : excludeInput' = v
    /\ edits' = edits + 1
    /\ UNCHANGED <<ingredientsInput, time, mood, diet, viewVars, runVars,
                   estVars, moodVars>>

setTime ==
    /\ CanEdit
    /\ \E v \in TimeChoices \ {time} : time' = v
    /\ edits' = edits + 1
    /\ UNCHANGED <<ingredientsInput, excludeInput, mood, diet, viewVars,
                   runVars, estVars, moodVars>>

setMood ==
    /\ CanEdit
    /\ \E v \in Moods \ {mood} : mood' = v
    /\ edits' = edits + 1
    /\ UNCHANGED <<ingredientsInput, excludeInput, time, diet, viewVars,
                   runVars, estVars, moodVars>>

setDiet ==
    /\ CanEdit
    /\ \E v \in DIETS \ {diet} : diet' = v
    /\ edits' = edits + 1
    /\ UNCHANGED <<ingredientsInput, excludeInput, time, mood, viewVars,
                   runVars, estVars, moodVars>>

(***************************************************************************)
(* onSearch, in the three pieces its two awaits cut it into                *)
(***************************************************************************)
\* a submit that leaves the old results on screen
KeptMeals(old) == old

\* setMeals([]) at the top of onSearch
ClearedMeals(old) == <<>>

\* one call per distinct ingredient
IssuedFilterCallsDistinct(ingredients) ==
    SelectSeq([k \in 1..Len(ingredients) |-> 
                  IF \E j \in 1..(k - 1) : ingredients[j] = ingredients[k]
                  THEN <<>> ELSE ingredients[k]],
              LAMBDA ing : ing # <<>>)

\* parsedIngredients.map((ing) => API.filterByIngredient(ing))
IssuedFilterCalls(ingredients) == ingredients

\* lists.map((list) => new Set(list.map((m) => m.idMeal))): a Set keeps
\* each id once, in the order of its first insertion
IdSet(list) ==
    LET firsts == SelectSeq(Indexes(Len(list)),
                            LAMBDA i : \A j \in 1..(i - 1) :
                                           list[j].idMeal # list[i].idMeal)
    IN  [k \in 1..Len(firsts) |-> list[firsts[k]].idMeal]

\* a loop that never filters
IntersectFirstOnly(idSets, n) == IF n = 0 THEN <<>> ELSE idSets[1]

\* the loop over idSets: the first set, filtered by each later one
RECURSIVE Intersect(_, _)
Intersect(idSets, n) ==
    IF n = 0 THEN <<>>
    ELSE IF n = 1 THEN idSets[1]
    ELSE SelectSeq(Intersect(idSets, n - 1),
                   LAMBDA id : InSeq(id, idSets[n]))

MaxDetails == 24

\* a slice that takes one id too many
SelectedOffByOne(ids) == SubSeq(ids, 1, Min2(Len(ids), MaxDetails + 1))

\* ids.slice(0, 24)
Selected(ids) == SubSeq(ids, 1, Min2(Len(ids), MaxDetails))

\* details.filter(matchesTime && matchesMood && matchesDiet && excludeIngredients)
Passes(m, s) ==
    /\ matchesTime(m, s.time)
    /\ matchesMood(m, s.mood)
    /\ matchesDiet(m, s.diet)
    /\ excludeIngredients(m, s.excludes)

\* Passes over the records and criteria of the model, evaluated once
Criteria ==
    [excludes : {ParseList(t) : t \in ExcludeTexts}, time : TimeChoices,
     mood : Moods, diet : DIETS]

PassesTable ==
    [id \in MealIds |-> [c \in Criteria |-> Passes(MealDB[id], c)]]

\* each predicate over the same records and criteria, evaluated once
TimeTable == [id \in MealIds |-> [t \in TimeChoices |-> matchesTime(MealDB[id], t)]]
MoodTable == [id \in MealIds |-> [c \in Moods |-> matchesMood(MealDB[id], c)]]
DietTable == [id \in MealIds |-> [d \in DIETS |-> matchesDiet(MealDB[id], d)]]
ExcludeTable ==
    [id \in MealIds |->
        [e \in {ParseList(t) : t \in ExcludeTexts} |->
            excludeIngredients(MealDB[id], e)]]

CriteriaOf(s) ==
    [excludes |-> s.excludes, time |-> s.time, mood |-> s.mood,
     diet |-> s.diet]

\* (await Promise.all(...)).filter((m) => !!m), then the criteria filter
Filtered(results, s) ==
    LET present == SelectSeq(results, LAMBDA r : r.value # <<>>)
        details == [k \in 1..Len(present) |-> present[k].value[1]]
    IN  SelectSeq(details, LAMBDA m : PassesTable[m.idMeal][CriteriaOf(s)])

\* err?.message || 'Something went wrong'
ErrorText(message) == IF message = "" THEN FallbackMessage ELSE message

\* lines 133-147: the handler up to its first await.  The button that
\* submits the form is disabled while loading.
Submit ==
    /\ ~loading
    /\ pc = "idle"
    /\ shown' = (Len(parsedIngredients) # 0 /\ Len(meals) > 0)
    /\ meals' = ClearedMeals(meals)
    /\ lists' = <<>>
    /\ selected' = <<>>
    /\ fetches' = <<>>
    /\ lookups' = <<>>
    /\ detailCalls' = <<>>
    /\ search' = [input |-> ingredientsInput,
                  ingredients |-> parsedIngredients,
                  excludes |-> parsedExcludes,
                  time |-> time, mood |-> mood, diet |-> diet]
    /\ IF Len(parsedIngredients) = 0
       THEN /\ error' = ValidationMessage
            /\ loading' = FALSE
            /\ filterCalls' = <<>>
            /\ pc' = "idle"
       ELSE /\ error' = NoError
            /\ loading' = TRUE
            /\ filterCalls' = IssuedFilterCalls(parsedIngredients)
            /\ pc' = "filter"
    /\ UNCHANGED <<formVars, estVars, moodVars>>

\* lines 147-166: Promise.all of the filter calls settles; on success the
\* handler runs on to its second await
FilterSettled ==
    /\ pc = "filter"
    /\ \E fetched \in [1..Len(filterCalls) -> FilterFetches] :
         LET results == [k \in 1..Len(filterCalls) |->
                            filterByIngredient(fetched[k])]
             failed == {k \in 1..Len(results) : results[k].thrown}
             got == [k \in 1..Len(results) |-> results[k].value]
             idSets == [k \in 1..Len(got) |-> IdSet(got[k])]
             ids == Intersect(idSets, Len(idSets))
         IN  /\ fetches' = [k \in 1..Len(fetched) |->
                                [rejected |-> fetched[k].rejected,
                                 ok |-> fetched[k].ok,
                                 message |-> fetched[k].message]]
             /\ IF failed # {}
                THEN \* Promise.all rejects with whichever call failed first
                     /\ \E k \in failed :
                            error' = ErrorText(results[k].message)
                     /\ loading' = FALSE
                     /\ pc' = "idle"
                     /\ shown' = FALSE
                     /\ UNCHANGED <<meals, lists, selected, detailCalls>>
                ELSE /\ lists' = got
                     /\ IF Len(ids) = 0
                        THEN /\ meals' = <<>>
                             /\ loading' = FALSE
                             /\ pc' = "idle"
                             /\ shown' = FALSE
                             /\ UNCHANGED <<selected, detailCalls>>
                        ELSE /\ selected' = Selected(ids)
                             /\ detailCalls' = Selected(ids)
                             /\ pc' = "details"
                             /\ UNCHANGED <<meals, loading, shown>>
                     /\ UNCHANGED error
    /\ UNCHANGED <<formVars, search, lookups, filterCalls, estVars, moodVars>>

\* lines 164-178: Promise.all of the lookups settles; filter, setMeals
DetailsSettled ==
    /\ pc = "details"
    /\ \E kinds \in [FlakyIds -> DetailKinds] :
         LET fetched == [k \in 1..Len(selected) |->
                            DetailFetch(selected[k],
                                        IF selected[k] \in FlakyIds
                                        THEN kinds[selected[k]]
                                        ELSE "found")]
             results == [k \in 1..Len(selected) |-> detailsById(fetched[k])]
             failed == {k \in 1..Len(results) : results[k].thrown}
         IN  /\ lookups' = [k \in 1..Len(selected) |->
                                IF selected[k] \in FlakyIds
                                THEN kinds[selected[k]] ELSE "found"]
             /\ IF failed # {}
                THEN /\ \E k \in failed :
                           error' = ErrorText(results[k].message)
                     /\ UNCHANGED meals
                ELSE /\ meals' = Filtered(results, search)
                     /\ UNCHANGED error
    /\ loading' = FALSE
    /\ pc' = "idle"
    /\ shown' = FALSE
    /\ UNCHANGED <<formVars, search, lists, selected, fetches, filterCalls,
                   detailCalls, estVars, moodVars>>

(***************************************************************************)
(* estimateMinutes on a meal that grows word by word and ingredient by     *)
(* ingredient; estWords and estCount count what was added                  *)
(***************************************************************************)
BlankMeal(instructions, filler) ==
    [idMeal |-> 0, strCategory |-> Null, strTags |-> Null,
     strInstructions |-> instructions,
     strIngredient |-> [i \in 1..NumSlots |-> filler]]

EstInit ==
    /\ \E instructions \in {Null, <<" ">>} :
         estMeal = BlankMeal(instructions, IF instructions = Null
                                           THEN <<" ">> ELSE Null)
    /\ estWords = 0
    /\ estCount = 0
    /\ est = estimateMinutes(estMeal)

\* one more word, after a space or, every third time, a line break
AddWord ==
    /\ estWords < MaxWords
    /\ LET text == Coalesce(estMeal.strInstructions, <<>>)
           gap == IF estWords % 3 = 2 THEN <<"\n", " ">> ELSE <<" ">>
       IN  estMeal' = [estMeal EXCEPT !.strInstructions = text \o gap \o <<"a">>]
    /\ estWords' = estWords + 1
    /\ est' = estimateMinutes(estMeal')
    /\ UNCHANGED <<estCount, formVars, viewVars, runVars, moodVars>>

\* one more ingredient, in the next free slot
AddIngredient ==
    /\ estCount < NumSlots
    /\ estMeal' = [estMeal EXCEPT !.strIngredient[estCount + 1] =
                                      <<" ","S","a","l","t">>]
    /\ estCount' = estCount + 1
    /\ est' = estimateMinutes(estMeal')
    /\ UNCHANGED <<estWords, formVars, viewVars, runVars, moodVars>>

InitEst == AppInit /\ MoodIdle /\ EstInit

NextEst ==
    \/ AddWord
    \/ AddIngredient

SpecEst == InitEst /\ [][NextEst]_vars

(***************************************************************************)
(* matchesMood on a meal and a mood drawn from bounded sets                *)
(***************************************************************************)
MoodCategories ==
    { Null, <<"B","e","e","f">>, <<"b","e","e","f">>,
      <<"D","e","s","s","e","r","t">>, <<"S","e","a","f","o","o","d">>,
      <<"V","e","g","a","n">> }

MoodTags ==
    { Null, <<>>, <<"S","o","u","p">>,
      <<"S","o","u","p",","," ","E","x","t","r","a","S","p","i","c","y">>,
      <<"s","p","i","c","y">>,
      <<"Q","u","i","c","k",",","E","a","s","y">>,
      <<"L","o","w"," ","F","a","t">> }

MoodInit ==
    /\ \E category \in MoodCategories, tags \in MoodTags :
         moodMeal = [BlankMeal(Null, Null) EXCEPT !.strCategory = category,
                                                  !.strTags = tags]
    /\ moodChoice \in Moods
    /\ moodResult = "none"

ApplyMood ==
    /\ moodResult = "none"
    /\ moodResult' = IF matchesMood(moodMeal, moodChoice) THEN "true" ELSE "false"
    /\ UNCHANGED <<moodMeal, moodChoice, formVars, viewVars, runVars, estVars>>

InitMood == AppInit /\ EstIdle /\ MoodInit

NextMood == ApplyMood

SpecMood == InitMood /\ [][NextMood]_vars

Next ==
    \/ setIngredientsInput
    \/ setExcludeInput
    \/ setTime
    \/ setMood
    \/ setDiet
    \/ Submit
    \/ FilterSettled
    \/ DetailsSettled

Spec == Init /\ [][Next]_vars
(***************************************************************************)
(* What the claims speak of, stated from the responses and the submitted   *)
(* form rather than from the handler's own intermediate values             *)
(***************************************************************************)
\* the ids the filter call of ingredient k returned
ListIds(k) == {lists[k][i].idMeal : i \in 1..Len(lists[k])}

\* the intersection of all per-ingredient result sets
Candidates == {id \in MealIds : \A k \in 1..Len(lists) : id \in ListIds(k)}

\* where the first ingredient's result first lists an id
FirstAt(id) ==
    CHOOSE i \in 1..Len(lists[1]) :
        lists[1][i].idMeal = id /\ \A j \in 1..(i - 1) : lists[1][j].idMeal # id

\* the first n ids of the intersection, in the order it is produced
FirstCandidates(n) ==
    LET cand == Candidates
        at == [id \in cand |-> FirstAt(id)]
    IN  {id \in cand : Cardinality({j \in cand : at[j] < at[id]}) < n}

\* how the lookup of an id ended, "none" when none was issued
LookupOf(id) ==
    IF \E k \in 1..Len(detailCalls) : detailCalls[k] = id
    THEN lookups[CHOOSE k \in 1..Len(detailCalls) : detailCalls[k] = id]
    ELSE "none"

ResultIds == {meals[k].idMeal : k \in 1..Len(meals)}

FetchFailed(f) == f.rejected \/ ~f.ok
AnyFetchFailed == \E k \in 1..Len(fetches) : FetchFailed(fetches[k])
AllFetchesOk ==
    Len(fetches) > 0 /\ \A k \in 1..Len(fetches) : ~FetchFailed(fetches[k])

\* a search whose filter calls all succeeded and that ended without error
Completed == pc = "idle" /\ error = NoError /\ AllFetchesOk

PlainCriteria ==
    /\ search.time = "Any"
    /\ search.mood = "Any"
    /\ search.diet = "None"
    /\ search.excludes = <<>>

\* C1: after a search that completes without error, a meal is in the
\* result list iff its id is among the first 24 ids of the intersection of
\* the per-ingredient results, its lookup found a record, and the four
\* predicates hold for the criteria submitted; with no criteria chosen the
\* result is the capped intersection less the absent lookups.
ResultIsFilteredCandidates ==
    Completed =>
        LET first == FirstCandidates(24)
            found == {id \in first : LookupOf(id) = "found"}
        IN  /\ \A id \in MealIds :
                  id \in ResultIds <=>
                      /\ id \in found
                      /\ TimeTable[id][search.time]
                      /\ MoodTable[id][search.mood]
                      /\ DietTable[id][search.diet]
                      /\ ExcludeTable[id][search.excludes]
            /\ \A k \in 1..Len(meals) : meals[k] = MealDB[meals[k].idMeal]
            /\ Cardinality(ResultIds) = Len(meals)
            /\ PlainCriteria => ResultIds = found

\* a completed search whose intersection exceeds the cap, with an absent
\* lookup and a found meal that the criteria removed
CappedFilteredSearch ==
    /\ Completed
    /\ Cardinality(Candidates) > 24
    /\ meals # <<>>
    /\ \E k \in 1..Len(lookups) : lookups[k] \in {"notOk", "noMeals"}
    /\ \E k \in 1..Len(lookups) :
          lookups[k] = "found" /\ detailCalls[k] \notin ResultIds

NoRejectedLookup ==
    Len(lookups) > 0 /\ \A k \in 1..Len(lookups) : lookups[k] # "reject"

\* C2: a lookup that ends in an HTTP failure or a body without the meal
\* drops that meal only: the search ends without error, and every other
\* found candidate that passes the criteria is shown.
AbsentLookupIsSoftMiss ==
    (pc = "idle" /\ NoRejectedLookup) =>
        /\ error = NoError
        /\ ~loading
        /\ \A k \in 1..Len(lookups) :
              /\ lookups[k] \in {"notOk", "noMeals"} =>
                     detailCalls[k] \notin ResultIds
              /\ (lookups[k] = "found"
                  /\ PassesTable[detailCalls[k]][CriteriaOf(search)]) =>
                     detailCalls[k] \in ResultIds

SoftMissBesideResults ==
    /\ pc = "idle"
    /\ NoRejectedLookup
    /\ \E k \in 1..Len(lookups) : lookups[k] = "notOk"
    /\ \E k \in 1..Len(lookups) : lookups[k] = "noMeals"
    /\ meals # <<>>

FailureText(f) ==
    IF ~f.rejected THEN "Network error fetching meals"
    ELSE IF f.message = "" THEN "Something went wrong" ELSE f.message

\* C3: when any filter call fails the search ends in Error with that
\* call's message (the fixed network message for an HTTP failure, the
\* fallback for an error without message), not loading, with no results
\* and no lookup issued.
FilterFailureIsError ==
    AnyFetchFailed =>
        /\ pc = "idle"
        /\ ~loading
        /\ meals = <<>>
        /\ detailCalls = <<>>
        /\ lookups = <<>>
        /\ \E k \in 1..Len(fetches) :
              FetchFailed(fetches[k]) /\ error = FailureText(fetches[k])

OneFailedOneSucceeded ==
    /\ AnyFetchFailed
    /\ \E k \in 1..Len(fetches) : ~FetchFailed(fetches[k])
    /\ error = "Something went wrong"

OnlyCommasAndSpaces(text) ==
    \A i \in 1..Len(text) : text[i] = "," \/ IsSpace(text[i])

\* C4: a submit whose ingredients text holds only commas and white space
\* ends in Error with the validation message, with no call issued, not
\* loading, and no results.
EmptyInputIsValidationError ==
    (search.input # Null /\ OnlyCommasAndSpaces(search.input)) =>
        /\ pc = "idle"
        /\ error = "Enter at least one ingredient."
        /\ ~loading
        /\ meals = <<>>
        /\ filterCalls = <<>>
        /\ detailCalls = <<>>
        /\ fetches = <<>>
        /\ lookups = <<>>

CommaOnlySubmitted ==
    /\ search.input = <<" ", ",", " ">>
    /\ error = "Enter at least one ingredient."

ConfiguredList(list) ==
    IF list = NoList THEN {} ELSE {list[i] : i \in 1..Len(list)}

TagsOfMeal(m) ==
    LET pieces == Split(Coalesce(m.strTags, <<>>), ",")
    IN  {Trim(pieces[k]) : k \in 1..Len(pieces)}

MoodSignal(m, choice) ==
    \/ Coalesce(m.strCategory, <<>>) \in ConfiguredList(MOOD_MAP[choice].categories)
    \/ \E t \in ConfiguredList(MOOD_MAP[choice].tagsContains) :
          \E tag \in TagsOfMeal(m) : Includes(tag, t)

\* C5: for a mood other than Any, matchesMood is true iff the category is
\* in the mood's configured categories or a tag contains one of the mood's
\* configured tag substrings.
MoodNeedsASignal ==
    (moodResult # "none" /\ moodChoice # "Any") =>
        (moodResult = "true" <=> MoodSignal(moodMeal, moodChoice))

\* C6 as claimed: while a new search is in flight, results that were on
\* screen when it was submitted are still on screen.
PreviousResultsStayWhileInFlight == (pc # "idle" /\ shown) => meals # <<>>

\* C6 as amended: the submit itself clears the result list, which stays
\* empty until the search's fetches complete.
ResultsClearedWhileInFlight ==
    pc # "idle" => (meals = <<>> /\ loading /\ error = NoError)

ResubmittedOverResults == pc # "idle" /\ shown /\ meals = <<>>

\* C7: when every filter call succeeds and the intersection is empty the
\* search ends with no error, no results, not loading and no lookup.
EmptyIntersectionIsEmptyState ==
    (AllFetchesOk /\ Candidates = {}) =>
        /\ pc = "idle"
        /\ error = NoError
        /\ meals = <<>>
        /\ ~loading
        /\ detailCalls = <<>>
        /\ lookups = <<>>

DisjointNonEmptyLists ==
    /\ AllFetchesOk
    /\ Candidates = {}
    /\ \A k \in 1..Len(lists) : Len(lists[k]) > 0

HasTerm(name, term) ==
    \E p \in 0..(Len(name) - Len(term)) :
        \A q \in 1..Len(term) : ToLowerChar(name[p + q]) = term[q]

NamesTerm(m, term) ==
    \E i \in 1..NumSlots :
        /\ m.strIngredient[i] # Null
        /\ \E c \in 1..Len(m.strIngredient[i]) : ~IsSpace(m.strIngredient[i][c])
        /\ HasTerm(m.strIngredient[i], term)

ExcludeLists == {ParseList(t) : t \in ExcludeTexts}

ExclusionIsSubstringTest ==
    \A id \in MealIds, excludes \in ExcludeLists :
        excludeIngredients(MealDB[id], excludes) <=>
            \/ Len(excludes) = 0
            \/ ~ \E e \in 1..Len(excludes) : NamesTerm(MealDB[id], excludes[e])

\* the record of id 5 has the ingredients Chicken and Peanuts
ExclusionExamples ==
    /\ ~excludeIngredients(MealDB[5], << <<"p","e","a","n","u","t">> >>)
    /\ excludeIngredients(MealDB[5], << <<"a","l","m","o","n","d">> >>)

\* whether a record of the API names a term of an exclusion list
NamesExcluded ==
    [id \in MealIds |->
        [excludes \in ExcludeLists |->
            \E e \in 1..Len(excludes) : NamesTerm(MealDB[id], excludes[e])]]

\* C8: excludeIngredients is true iff the list is empty or no excluded
\* term occurs, compared in lower case, in the name of any non-blank
\* ingredient slot; so no meal of a completed search names a term that
\* was excluded at submit.
NoExcludedIngredientShown ==
    /\ ExclusionIsSubstringTest
    /\ ExclusionExamples
    /\ Completed =>
          \A k \in 1..Len(meals) :
              /\ meals[k] = MealDB[meals[k].idMeal]
              /\ ~NamesExcluded[meals[k].idMeal][search.excludes]

ExclusionRemovedAMeal ==
    /\ Completed
    /\ search.excludes # <<>>
    /\ meals # <<>>
    /\ \E k \in 1..Len(lookups) :
          /\ lookups[k] = "found"
          /\ NamesExcluded[detailCalls[k]][search.excludes]

NearestToQuarters(q) ==
    CHOOSE r \in 0..(q + 1) : 4 * r - 2 <= q /\ q < 4 * r + 2

Clamped(v) == IF v < 5 THEN 5 ELSE IF v > 180 THEN 180 ELSE v

EstimateIsClampedRound ==
    /\ est = Clamped(NearestToQuarters(estWords + 8 * estCount))
    /\ est \in 5..180
    /\ (estWords = 0 /\ estCount = 0) => est = 5

\* C9: estimateMinutes is the integer nearest to words / 4 + 2 n (halves
\* up) clamped to 5..180, 5 for no words and no ingredients, and never
\* decreases when a word or an ingredient is added.
EstimateClampedAndMonotone ==
    /\ []EstimateIsClampedRound
    /\ [][est' >= est]_vars

EstimateCappedAtHigh ==
    /\ estCount = 20
    /\ NearestToQuarters(estWords + 8 * estCount) > 180
    /\ est = 180

\* C10 as claimed: a search issues one filterByIngredient call per
\* distinct parsed ingredient.
OneCallPerDistinctIngredient ==
    Len(filterCalls) = Cardinality({filterCalls[k] : k \in 1..Len(filterCalls)})

EntryStarts(text) ==
    {i \in 1..Len(text) :
        /\ text[i] # "," /\ ~IsSpace(text[i])
        /\ \A j \in 1..(i - 1) :
              (\A h \in j..(i - 1) : text[h] # ",") => IsSpace(text[j])}

\* C10 as amended: a search issues one filterByIngredient call per
\* non-blank comma-separated entry of the ingredients text, in order,
\* repeated entries included.
OneCallPerParsedEntry ==
    search.input # Null =>
        /\ Len(filterCalls) = Cardinality(EntryStarts(search.input))
        /\ \A k \in 1..Len(filterCalls) : filterCalls[k] = search.ingredients[k]

RepeatedIngredientCalledTwice ==
    /\ Len(filterCalls) = 2
    /\ filterCalls[1] = filterCalls[2]
====
